---------------------------- MODULE Spec2Model ----------------------------
(***************************************************************************)
(* A model of cern/cpymad/libmadx.pyx, the low level binding to MAD-X.     *)
(*                                                                         *)
(* The binding operates on the process-wide state of the MAD-X library.    *)
(* The library itself is not part of the binding; what the binding reads   *)
(* from it (registries, sequences, nodes, parameter records, tables,      *)
(* column buffers) is the state of this model, and the binding's functions *)
(* are its actions and operators.                                          *)
(*                                                                         *)
(* Text that the binding parses (table header lines) is a sequence of      *)
(* one-character strings.  Names that are only compared are TLA+ strings.  *)
(* A C double is an integer number of halves (3 stands for 1.5), so that   *)
(* int() and bool() of a double are conversions that do something.         *)
(***************************************************************************)
EXTENDS Integers, Sequences, FiniteSets, TLC

VARIABLES
    started,        \* madx_start() has run and madx_finish() has not
    sequs,          \* the sequence registry: name -> sequence struct
    current_sequ,   \* clib.current_sequ: NULL or a sequence name
    tables,         \* clib.table_register: name -> table struct
    heap,           \* engine memory holding column buffers: address -> cells
    scratch,        \* clib.c_dum / clib.tmp_p_array, the global temporaries
    held,           \* what the host keeps from its last get_table_column calls
    result,         \* the last call: operation, arguments, outcome
    par,            \* the parameter record handed to _get_param_value
    header_line     \* the header line handed to _split_header_line

vars == <<started, sequs, current_sequ, tables, heap, scratch, held, result,
          par, header_line>>

\* A C null pointer.  A pointer to an expression, a command, an element or a
\* sequence is the name of what it points to.
NULL == "NULL"
\* Python's None, and an absent keyword argument of Constraint.
None == "None"
NoValue == [variant |-> "None"]

\* Outcomes of a call of the binding.
Ok(v) == [kind |-> "ok", value |-> v]
ValueError(m, a) == [kind |-> "ValueError", msg |-> m, arg |-> a]
RuntimeError(m, a) == [kind |-> "RuntimeError", msg |-> m, arg |-> a]
\* The native library was handed a pointer it cannot use: the process dies.
Fault == [kind |-> "fault"]

NoCall == [op |-> "none", args |-> <<>>, native |-> FALSE, out |-> Ok(NULL)]

Range(s) == {s[i] : i \in 1..Len(s)}

(***************************************************************************)
(* Text                                                                    *)
(***************************************************************************)
Digits == {"0", "1", "2", "3", "4", "5", "6", "7", "8", "9"}

DigitVal == ("0" :> 0) @@ ("1" :> 1) @@ ("2" :> 2) @@ ("3" :> 3) @@ ("4" :> 4)
         @@ ("5" :> 5) @@ ("6" :> 6) @@ ("7" :> 7) @@ ("8" :> 8) @@ ("9" :> 9)

\* str.isspace() for the characters of the model.
IsSpace(c) == c \in {" ", "\t"}

\* s[i:] of Python, i counted from 1 here.
From(s, i) == SubSeq(s, i, Len(s))

RECURSIVE SkipSpace(_, _)
\* The first position >= i of s that holds no white space (Len(s)+1 if none).
SkipSpace(s, i) ==
    IF i <= Len(s) /\ IsSpace(s[i]) THEN SkipSpace(s, i + 1) ELSE i

RECURSIVE SkipWord(_, _)
\* The first position >= i of s that holds white space (Len(s)+1 if none).
SkipWord(s, i) ==
    IF i <= Len(s) /\ ~IsSpace(s[i]) THEN SkipWord(s, i + 1) ELSE i

RECURSIVE SplitFrom(_, _, _)
\* str.split(None, maxsplit) from position i on: words are cut at runs of
\* white space while splits remain; what is left after the last split is
\* kept whole, from its first non-blank character to the end of the text.
SplitFrom(s, i, maxsplit) ==
    LET b == SkipSpace(s, i) IN
    IF b > Len(s) THEN <<>>
    ELSE IF maxsplit = 0 THEN <<From(s, b)>>
    ELSE LET e == SkipWord(s, b) IN
         <<SubSeq(s, b, e - 1)>> \o SplitFrom(s, e, maxsplit - 1)

split(s, maxsplit) == SplitFrom(s, 1, maxsplit)

RECURSIVE StripRight(_)
StripRight(s) ==
    IF s # <<>> /\ IsSpace(s[Len(s)]) THEN StripRight(SubSeq(s, 1, Len(s) - 1))
    ELSE s

\* str.strip()
Strip(s) == StripRight(From(s, SkipSpace(s, 1)))

\* s[1:-1] of Python: the text without its first and its last character; a
\* text of fewer than two characters gives the empty text.
Slice1(s) == SubSeq(s, 2, Len(s) - 1)

\* str.endswith(c) for a single character c.
endswith(s, c) == s # <<>> /\ s[Len(s)] = c

(***************************************************************************)
(* Decimal numbers read from text: mant / 10^dec, with no trailing zero    *)
(* in the fraction.                                                        *)
(***************************************************************************)
RECURSIVE Normal(_, _)
Normal(mant, dec) ==
    IF dec > 0 /\ mant % 10 = 0 THEN Normal(mant \div 10, dec - 1)
    ELSE [mant |-> mant, dec |-> dec]

RECURSIVE DigitsValue(_)
\* The number a run of digits denotes.
DigitsValue(ds) ==
    IF ds = <<>> THEN 0
    ELSE 10 * DigitsValue(SubSeq(ds, 1, Len(ds) - 1)) + DigitVal[ds[Len(ds)]]

\* float(text): white space around the text is dropped; then a sign and
\* digits with at most one point and at least one digit.  Exponents, "inf"
\* and "nan" do not occur in the texts of the model.
float(text) ==
    LET t     == Strip(text)
        neg   == t # <<>> /\ t[1] = "-"
        u     == IF t # <<>> /\ t[1] \in {"-", "+"} THEN From(t, 2) ELSE t
        dots  == {i \in 1..Len(u) : u[i] = "."}
        ds    == SelectSeq(u, LAMBDA c : c # ".")
        dec   == IF dots = {} THEN 0
                 ELSE Len(u) - (CHOOSE i \in dots : TRUE)
        n     == Normal(DigitsValue(ds), dec)
    IN  IF /\ ds # <<>>
           /\ Range(ds) \subseteq Digits
           /\ Cardinality(dots) <= 1
        THEN Ok([n EXCEPT !.mant = IF neg THEN 0 - n.mant ELSE n.mant])
        ELSE ValueError("could not convert string to float", text)

\* _split_header_line had it split at every run of white space.
SplitEveryField(line) ==
    LET f == split(line, Len(line)) IN
    IF Len(f) # 4 THEN ValueError("need 4 values to unpack", Len(f))
    ELSE IF f[3] = <<"%", "l", "e">>
    THEN LET x == float(f[4]) IN IF x.kind = "ok" THEN Ok(<<f[2], x.value>>) ELSE x
    ELSE IF endswith(f[3], "s") THEN Ok(<<f[2], Slice1(f[4])>>)
    ELSE Ok(<<f[2], f[4]>>)

\* _split_header_line: four fields; the third says how to read the fourth.
_split_header_line(line) ==
    LET f == split(line, 3) IN
    IF Len(f) # 4 THEN ValueError("need 4 values to unpack", Len(f))
    ELSE LET key == f[2]
             knd == f[3]
             value == f[4]
         IN  IF knd = <<"%", "l", "e">>
             THEN LET x == float(value) IN
                  IF x.kind = "ok" THEN Ok(<<key, x.value>>) ELSE x
             ELSE IF endswith(knd, "s")
             THEN Ok(<<key, Slice1(value)>>)
             ELSE Ok(<<key, value>>)

(***************************************************************************)
(* Parameter records (clib.command_parameter) and their decoding           *)
(***************************************************************************)
PARAM_TYPE_LOGICAL == 0
PARAM_TYPE_INTEGER == 1
PARAM_TYPE_DOUBLE == 2
PARAM_TYPE_STRING == 3
PARAM_TYPE_CONSTRAINT == 4
PARAM_TYPE_LOGICAL_ARRAY == 10
PARAM_TYPE_INTEGER_ARRAY == 11
PARAM_TYPE_DOUBLE_ARRAY == 12
PARAM_TYPE_STRING_ARRAY == 13

CONSTR_TYPE_MIN == 1
CONSTR_TYPE_MAX == 2
CONSTR_TYPE_BOTH == 3
CONSTR_TYPE_VALUE == 4

\* _expr_types = [bool, int, float], indexed from 0.
_expr_types == <<"bool", "int", "float">>

\* bool(value), int(value), float(value) of a double counted in halves.
Convert(type, value) ==
    CASE type = "bool"  -> [variant |-> "bool", value |-> IF value # 0 THEN 1 ELSE 0]
      [] type = "int"   -> [variant |-> "int",
                            value |-> IF value >= 0 THEN value \div 2
                                      ELSE 0 - ((0 - value) \div 2)]
      [] type = "float" -> [variant |-> "float", value |-> value]

\* _str: a null C string decodes to None.
_str(s) == IF s = NULL THEN None ELSE s

\* _cstr: None encodes to the empty C string.
_cstr(s) == IF s = None THEN "" ELSE s

\* _expr: the plain value, or the value with the expression it came from.
_expr(expr, value, typeid) ==
    LET type == _expr_types[typeid + 1] IN
    IF expr = NULL THEN Convert(type, value)
    ELSE [variant |-> "Expression", expr |-> _str(expr), value |-> value,
          type |-> type]

\* What the C array read list[i] can give when i is not below the list's
\* length: a null pointer, the pointer a former use left there, or a pointer
\* into nowhere, which kills the process when _expr reads through it.
WILD == "wild"
OutOfBounds == {NULL, "stale", WILD}

\* par.expr_list.list[i], i counted from 0 as in the source: the read is not
\* guarded by the list's length.
ListAt(list, i, oob) == IF i < Len(list) THEN list[i + 1] ELSE oob

\* par.expr_list: a null pointer, or a list of pointers to expressions.
NoList == [null |-> TRUE, list |-> <<>>]
ExprList(l) == [null |-> FALSE, list |-> l]

\* The indices at which _get_param_value reads par.expr_list.list.
ExprListReads(p) ==
    IF /\ p.type \in {PARAM_TYPE_INTEGER_ARRAY, PARAM_TYPE_DOUBLE_ARRAY}
       /\ ~p.expr_list.null
    THEN 0..(Len(p.double_array) - 1)
    ELSE {}

Constraint(min, max, val) ==
    [variant |-> "Constraint", min |-> min, max |-> max, val |-> val]

\* _get_param_value.  oob is what a read beyond the expression list gives.
_get_param_value(p, oob) ==
    IF p.type \in {PARAM_TYPE_LOGICAL, PARAM_TYPE_INTEGER, PARAM_TYPE_DOUBLE}
    THEN Ok(_expr(p.expr, p.double_value, p.type))
    ELSE IF p.type = PARAM_TYPE_STRING
    THEN Ok([variant |-> "str", value |-> _str(p.string)])
    ELSE IF p.type = PARAM_TYPE_CONSTRAINT /\ p.c_type = CONSTR_TYPE_MIN
    THEN Ok(Constraint(_expr(p.min_expr, p.c_min, PARAM_TYPE_DOUBLE),
                       NoValue, NoValue))
    ELSE IF p.type = PARAM_TYPE_CONSTRAINT /\ p.c_type = CONSTR_TYPE_MAX
    THEN Ok(Constraint(NoValue,
                       _expr(p.max_expr, p.c_max, PARAM_TYPE_DOUBLE), NoValue))
    ELSE IF p.type = PARAM_TYPE_CONSTRAINT /\ p.c_type = CONSTR_TYPE_BOTH
    THEN Ok(Constraint(_expr(p.min_expr, p.c_min, PARAM_TYPE_DOUBLE),
                       _expr(p.max_expr, p.c_max, PARAM_TYPE_DOUBLE), NoValue))
    ELSE IF p.type = PARAM_TYPE_CONSTRAINT /\ p.c_type = CONSTR_TYPE_VALUE
    THEN Ok(Constraint(NoValue, NoValue,
                       _expr(p.expr, p.double_value, PARAM_TYPE_DOUBLE)))
    ELSE IF p.type \in {PARAM_TYPE_INTEGER_ARRAY, PARAM_TYPE_DOUBLE_ARRAY}
    THEN LET n == Len(p.double_array)
             e(i) == IF p.expr_list.null THEN NULL
                     ELSE ListAt(p.expr_list.list, i, oob)
         IN  IF \E i \in 0..(n - 1) : e(i) = WILD
             THEN Fault
             ELSE Ok([variant |-> "numbers",
                      value |-> [i \in 1..n |->
                          _expr(e(i - 1), p.double_array[i],
                                p.type - PARAM_TYPE_LOGICAL_ARRAY)]])
    ELSE IF p.type = PARAM_TYPE_STRING_ARRAY
    THEN Ok([variant |-> "strs",
             value |-> [i \in 1..Len(p.m_string) |-> _str(p.m_string[i])]])
    ELSE ValueError("Unknown parameter type", p.type)

(***************************************************************************)
(* What the engine holds: commands, elements, nodes, sequences             *)
(***************************************************************************)
\* A parameter record with every field at rest.
Par0 ==
    [name |-> "p", type |-> PARAM_TYPE_LOGICAL, expr |-> NULL, double_value |-> 0,
     string |-> NULL, c_type |-> 0, min_expr |-> NULL, c_min |-> 0,
     max_expr |-> NULL, c_max |-> 0, expr_list |-> NoList, double_array |-> <<>>,
     m_string |-> <<>>]

\* The commands the engine holds (clib.command: beam_def and par), by name.
\* "beam0" is the default beam no BEAM command has set, "beam1" a beam set
\* by a BEAM command, "quad" and "odd" the definitions of two elements; the
\* definition "odd" carries an array of logicals, a type the binding does
\* not decode.
CommandOf(c) ==
    CASE c = "beam0" -> [beam_def |-> FALSE, par |-> <<>>]
      [] c = "beam1" ->
            [beam_def |-> TRUE,
             par |-> << [Par0 EXCEPT !.name = "particle",
                                     !.type = PARAM_TYPE_STRING,
                                     !.string = "proton"],
                        [Par0 EXCEPT !.name = "energy",
                                     !.type = PARAM_TYPE_DOUBLE,
                                     !.double_value = 5] >>]
      [] c = "quad"  ->
            [beam_def |-> FALSE,
             par |-> << [Par0 EXCEPT !.name = "k1",
                                     !.type = PARAM_TYPE_DOUBLE,
                                     !.expr = "kq", !.double_value = 3] >>]
      [] c = "odd"   ->
            [beam_def |-> FALSE,
             par |-> << [Par0 EXCEPT !.name = "l", !.type = PARAM_TYPE_DOUBLE,
                                     !.double_value = 2],
                        [Par0 EXCEPT !.name = "x",
                                     !.type = PARAM_TYPE_LOGICAL_ARRAY] >>]

\* The elements the engine holds (clib.element: name, length, def_), by name.
ElementOf(e) ==
    CASE e = "quad" -> [name |-> "qf", length |-> 3, def_ |-> "quad"]
      [] e = "odd"  -> [name |-> "od", length |-> 2, def_ |-> "odd"]

\* The nodes a sequence can hold (clib.node: p_elem, p_sequ, base_name): an
\* element node for each element, a node for the nested sequence "s2", and
\* a node with neither.
QuadNode == [p_elem |-> "quad", p_sequ |-> NULL, base_name |-> "quadrupole"]
OddNode == [p_elem |-> "odd", p_sequ |-> NULL, base_name |-> "odd"]
SequNode == [p_elem |-> NULL, p_sequ |-> "s2", base_name |-> "sequence"]
EmptyNode == [p_elem |-> NULL, p_sequ |-> NULL, base_name |-> NULL]

NodeKinds == {QuadNode, OddNode, SequNode, EmptyNode}

\* A Python dict: a function from its keys.  Writing a key again replaces
\* its value.
EmptyDict == <<>>
DictSet(d, k, v) == [x \in DOMAIN d \cup {k} |-> IF x = k THEN v ELSE d[x]]

PyStr(s) == [variant |-> "str", value |-> s]
PyFloat(x) == [variant |-> "float", value |-> x]

RECURSIVE ParseParams(_, _, _, _)
\* The loop of _parse_command from parameter i on, res being the dict so
\* far: the first parameter that does not decode ends the loop with its
\* failure.
ParseParams(ps, i, res, oob) ==
    IF i > Len(ps) THEN Ok(res)
    ELSE LET v == _get_param_value(ps[i], oob) IN
         IF v.kind # "ok" THEN v
         ELSE ParseParams(ps, i + 1, DictSet(res, _str(ps[i].name), v.value), oob)

\* _parse_command: the values of all parameters of a command, by name.
_parse_command(cmd, oob) == ParseParams(CommandOf(cmd).par, 1, EmptyDict, oob)

\* _get_element: the parameters of the element's definition, then its name
\* and length.
_get_element(elem, oob) ==
    LET data == _parse_command(ElementOf(elem).def_, oob) IN
    IF data.kind # "ok" THEN data
    ELSE Ok(DictSet(DictSet(data.value, "name", PyStr(_str(ElementOf(elem).name))),
                    "length", PyFloat(ElementOf(elem).length)))

\* _get_node had it passed a node with neither pointer as an empty mapping.
EmptyNodeAsEmptyDict(node, oob) ==
    IF node.p_elem # NULL
    THEN LET data == _get_element(node.p_elem, oob) IN
         IF data.kind # "ok" THEN data
         ELSE Ok(DictSet(data.value, "type", PyStr(_str(node.base_name))))
    ELSE IF node.p_sequ # NULL
    THEN Ok(DictSet(DictSet(EmptyDict, "type", PyStr("sequence")),
                    "sequence", PyStr(_str(node.p_sequ))))
    ELSE Ok(EmptyDict)

\* _get_node: an element node, a sequence node, or "Empty node!".
_get_node(node, oob) ==
    IF node.p_elem # NULL
    THEN LET data == _get_element(node.p_elem, oob) IN
         IF data.kind # "ok" THEN data
         ELSE Ok(DictSet(data.value, "type", PyStr(_str(node.base_name))))
    ELSE IF node.p_sequ # NULL
    THEN Ok(DictSet(DictSet(EmptyDict, "type", PyStr("sequence")),
                    "sequence", PyStr(_str(node.p_sequ))))
    ELSE RuntimeError("Empty node! Please report this incident!", NULL)

RECURSIVE NodeList(_, _, _)
\* [_get_node(nodes[i]) for i in xrange(n)] from node i on: the first node
\* that does not decode ends the list comprehension with its failure.
NodeList(nodes, i, oob) ==
    IF i > Len(nodes) THEN Ok(<<>>)
    ELSE LET d == _get_node(nodes[i], oob) IN
         IF d.kind # "ok" THEN d
         ELSE LET rest == NodeList(nodes, i + 1, oob) IN
              IF rest.kind # "ok" THEN rest
              ELSE Ok(<<d.value>> \o rest.value)

\* name_list_pos: the index, from 0, of name in a list of names; -1 if absent.
name_list_pos(name, list) ==
    IF \E i \in 1..Len(list) : list[i] = name
    THEN (CHOOSE i \in 1..Len(list) :
              list[i] = name /\ \A j \in 1..(i - 1) : list[j] # name) - 1
    ELSE 0 - 1

\* seqs.list: the names of the sequence registry, in its order.
SequNames == [i \in 1..Len(sequs) |-> sequs[i].name]

\* _find_sequence had it used the index -1 as Python does: the last entry.
FindSequenceOrLast(sequence_name) ==
    LET index == name_list_pos(_cstr(sequence_name), SequNames) IN
    IF index = 0 - 1 /\ sequs = <<>>
    THEN ValueError("Invalid sequence", sequence_name)
    ELSE IF index = 0 - 1 THEN Ok(sequs[Len(sequs)])
    ELSE Ok(sequs[index + 1])

\* _find_sequence: the sequence struct, or ValueError.
_find_sequence(sequence_name) ==
    LET index == name_list_pos(_cstr(sequence_name), SequNames) IN
    IF index = 0 - 1 THEN ValueError("Invalid sequence", sequence_name)
    ELSE Ok(sequs[index + 1])

(***************************************************************************)
(* Tables and the memory that holds their columns                          *)
(***************************************************************************)
\* Most rows of a table.
MaxRows == 2
\* The places in engine memory a table's columns can be allocated at: two,
\* so that a table built anew lies where the former one lay or elsewhere.
Blocks == {"A", "B"}

\* The doubles of a table column, in halves: 1.0 and 2.5.
Doubles == {2, 5}

RECURSIVE SeqsUpTo(_, _)
\* The sequences over S of length at most n.
SeqsUpTo(S, n) ==
    IF n = 0 THEN {<<>>}
    ELSE LET shorter == SeqsUpTo(S, n - 1) IN
         shorter \cup {Append(q, x) : q \in {t \in shorter : Len(t) = n - 1}, x \in S}

\* What the engine can store in a table: the rows of the double column
\* "length", the string column "name" and the integer column "n".
RowsOf(ds) ==
    [length |-> ds,
     name   |-> [i \in 1..Len(ds) |-> IF ds[i] = 2 THEN "d1" ELSE "q1"],
     n      |-> [i \in 1..Len(ds) |-> i]]

\* n doubles that alternate, beginning with first.
Alternating(n, first) ==
    [i \in 1..n |-> IF i % 2 = 1 THEN first ELSE CHOOSE d \in Doubles : d # first]

TableData == {RowsOf(Alternating(n, d)) : n \in 0..MaxRows, d \in Doubles}

\* Header lines as the engine keeps them: "@ NAME %05s "TWISS"" and
\* "@ LENGTH %le 26.5".
TwissHeader ==
    << <<"@", " ", "N", "A", "M", "E", " ", "%", "0", "5", "s", " ",
         "\"", "T", "W", "I", "S", "S", "\"">>,
       <<"@", " ", "L", "E", "N", "G", "T", "H", " ", " ", "%", "l", "e", " ",
         "2", "6", ".", "5">> >>

\* The columns of a table the engine builds in block blk: name, the
\* datatype table_get_column reports, and where the data lies.
ColumnsIn(blk) ==
    << [name |-> "length", datatype |-> "d", data |-> [blk |-> blk, col |-> "length"]],
       [name |-> "name",   datatype |-> "S", data |-> [blk |-> blk, col |-> "name"]],
       [name |-> "n",      datatype |-> "i", data |-> [blk |-> blk, col |-> "n"]] >>

\* The cells engine memory holds at a column's data pointer.
Cells(ptr) == heap[ptr.blk].rows[ptr.col]

TableNames == [i \in 1..Len(tables) |-> tables[i].name]

\* clib.table_exists
table_exists_(table) == name_list_pos(table, TableNames) # 0 - 1

\* clib.table_get_header: the table's header lines, NULL for no such table.
table_get_header(table) ==
    LET pos == name_list_pos(table, TableNames) IN
    IF pos = 0 - 1 THEN NULL ELSE tables[pos + 1].header

\* clib.table_get_column: data pointer, length and datatype of a column;
\* datatype 'V' when the table or the column is not there.
table_get_column(table, column) ==
    LET pos == name_list_pos(table, TableNames)
        t   == tables[pos + 1]
        cn  == [i \in 1..Len(t.columns) |-> t.columns[i].name]
        col == name_list_pos(column, cn)
    IN  IF pos = 0 - 1 \/ col = 0 - 1
        THEN [data |-> NULL, length |-> 0, datatype |-> "V"]
        ELSE [data |-> t.columns[col + 1].data, length |-> t.curr,
              datatype |-> t.columns[col + 1].datatype]

\* PyArray_SimpleNewFromData had it copied the data.
NewArrayCopied(length, data) ==
    [kind |-> "array",
     cells |-> [i \in 1..length |->
                  IF i <= Len(heap[data.blk].rows[data.col])
                  THEN heap[data.blk].rows[data.col][i] ELSE 0]]

\* cnp.PyArray_SimpleNewFromData: an array over the memory at data; nothing
\* is copied.
PyArray_SimpleNewFromData(length, data) ==
    [kind |-> "view", length |-> length, data |-> data]

\* np.array([char_tmp[i] for i in xrange(length)]): each C string is made
\* a Python object when the list is built.
np_array(length, data) ==
    [kind |-> "array", cells |-> [i \in 1..length |-> Cells(data)[i]]]

\* What the host reads in an array it was given.
Contents(a) ==
    IF a.kind = "view"
    THEN [i \in 1..a.length |->
             IF i <= Len(Cells(a.data)) THEN Cells(a.data)[i] ELSE 0]
    ELSE a.cells

RECURSIVE HeaderPairs(_, _)
\* [_split_header_line(header.p[i]) for i in xrange(header.curr)]
HeaderPairs(header, i) ==
    IF i > Len(header) THEN Ok(<<>>)
    ELSE LET kv == _split_header_line(header[i]) IN
         IF kv.kind # "ok" THEN kv
         ELSE LET rest == HeaderPairs(header, i + 1) IN
              IF rest.kind # "ok" THEN rest
              ELSE Ok(<<kv.value>> \o rest.value)

RECURSIVE dict(_)
\* dict(pairs): a later pair replaces an earlier one with the same key.
dict(pairs) ==
    IF pairs = <<>> THEN EmptyDict
    ELSE DictSet(dict(SubSeq(pairs, 1, Len(pairs) - 1)),
                 pairs[Len(pairs)][1], pairs[Len(pairs)][2])

(***************************************************************************)
(* The functions of the binding, as the outcome of a call in this state    *)
(***************************************************************************)
sequence_exists(sequence) ==
    IF _find_sequence(sequence).kind = "ValueError" THEN Ok(FALSE) ELSE Ok(TRUE)

get_twiss(sequence_name) ==
    LET seq == _find_sequence(sequence_name) IN
    IF seq.kind # "ok" THEN seq
    ELSE IF ~seq.value.tw_valid THEN RuntimeError("TWISS table invalid.", NULL)
    ELSE Ok(_str(seq.value.tw_table))

get_beam(sequence_name, oob) ==
    LET seq == _find_sequence(sequence_name) IN
    IF seq.kind # "ok" THEN seq
    ELSE IF seq.value.beam = NULL \/ ~CommandOf(seq.value.beam).beam_def
    THEN RuntimeError("No beam attached to", sequence_name)
    ELSE _parse_command(seq.value.beam, oob)

get_current_sequence ==
    IF current_sequ = NULL THEN RuntimeError("No active sequence!", NULL)
    ELSE Ok(_str(current_sequ))

get_sequences == Ok([i \in 1..Len(sequs) |-> _str(sequs[i].name)])

table_exists(table) == Ok(table_exists_(_cstr(table)))

\* Reading through a null pointer: the process dies, or the read gives
\* whatever lies there, here a header of no lines.
NullHeader == {Fault, Ok(EmptyDict)}

\* get_table_summary; null is what reading through a null header gives.
get_table_summary(table, null) ==
    LET header == table_get_header(_cstr(table)) IN
    IF header = NULL THEN null
    ELSE LET pairs == HeaderPairs(header, 1) IN
         IF pairs.kind # "ok" THEN pairs ELSE Ok(dict(pairs.value))

\* _name_list
_name_list(names) == [i \in 1..Len(names) |-> names[i].name]

get_table_columns(table) ==
    LET index == name_list_pos(_cstr(table), TableNames) IN
    IF index = 0 - 1 THEN ValueError("Invalid table", table)
    ELSE Ok(_name_list(tables[index + 1].columns))

\* get_table_column had it taken a column that is not there for an empty one.
MissingColumnAsEmpty(table, column) ==
    LET info  == table_get_column(_cstr(table), _cstr(column))
        dtype == info.datatype
    IN  IF dtype = "d" THEN Ok(PyArray_SimpleNewFromData(info.length, info.data))
        ELSE IF dtype = "S" THEN Ok(np_array(info.length, info.data))
        ELSE IF dtype = "V" THEN Ok([kind |-> "array", cells |-> <<>>])
        ELSE RuntimeError("Unknown datatype in column", <<_str(dtype), column>>)

get_table_column(table, column) ==
    LET info  == table_get_column(_cstr(table), _cstr(column))
        dtype == info.datatype
    IN  IF dtype = "d" THEN Ok(PyArray_SimpleNewFromData(info.length, info.data))
        ELSE IF dtype = "S" THEN Ok(np_array(info.length, info.data))
        ELSE IF dtype = "V"
        THEN ValueError("Column is not in table", <<column, table>>)
        ELSE RuntimeError("Unknown datatype in column", <<_str(dtype), column>>)

get_elements(sequence_name, oob) ==
    LET seq == _find_sequence(sequence_name) IN
    IF seq.kind # "ok" THEN seq ELSE NodeList(seq.value.nodes, 1, oob)

get_expanded_elements(sequence_name, oob) ==
    LET seq == _find_sequence(sequence_name) IN
    IF seq.kind # "ok" THEN seq ELSE NodeList(seq.value.all_nodes, 1, oob)

\* str.lower() and stolower_nq for the texts of the model.
lower(text) ==
    CASE text = "S1" -> "s1"
      [] text = "2*KQ" -> "2*kq"
      [] text = "KQ" -> "kq"
      [] OTHER -> text

\* clib.expression_value of the expressions of the model: kq is 1.5.
expression_value(expr) == IF expr = "2*kq" THEN 6 ELSE 3

\* evaluate: what it returns.
evaluate(cmd) == Ok(expression_value(_cstr(lower(cmd))))

(***************************************************************************)
(* The engine: its state after madx_start, and what a command does to it   *)
(***************************************************************************)
\* Most nodes of a sequence as it is declared.
MaxNodes == 2

\* A block of memory no table uses.
FreeBlock == [live |-> FALSE, rows |-> RowsOf(<<>>)]

\* What released memory holds afterwards is not defined: what it held, or
\* what the allocator wrote over it.
Scribbled(rows) ==
    [length |-> [i \in 1..Len(rows.length) |-> 0],
     name   |-> [i \in 1..Len(rows.length) |-> ""],
     n      |-> [i \in 1..Len(rows.length) |-> 0]]

\* The block b once released.  Memory no array of the host lies in is
\* read by nobody, and is written here as a block never used.
Released(b) ==
    IF held.obj.kind = "view" /\ held.obj.data.blk = b
    THEN {[live |-> FALSE, rows |-> heap[b].rows],
          [live |-> FALSE, rows |-> Scribbled(heap[b].rows)]}
    ELSE {FreeBlock}

\* The sequence struct a SEQUENCE command builds.
NewSequence(name, nodes) ==
    [name |-> name, tw_valid |-> FALSE, tw_table |-> NULL, beam |-> NULL,
     nodes |-> nodes, all_nodes |-> <<>>]

\* The registry with the struct of name s replaced by q, or q added.
PutSequence(s, q) ==
    LET i == name_list_pos(s, SequNames) IN
    IF i = 0 - 1 THEN Append(sequs, q) ELSE [sequs EXCEPT ![i + 1] = q]

\* The table named "twiss", if the registry holds one.
HasTwiss == name_list_pos("twiss", TableNames) # 0 - 1
TwissTable == tables[name_list_pos("twiss", TableNames) + 1]
TwissBlock == TwissTable.columns[1].data.blk

RECURSIVE Repeat(_, _)
Repeat(q, n) == IF n = 0 THEN <<>> ELSE q \o Repeat(q, n - 1)

\* SEQUENCE: declares (or declares anew) the sequence of that name.
Sequence(name, nodes) ==
    /\ sequs' = PutSequence(name, NewSequence(name, nodes))
    /\ UNCHANGED <<current_sequ, tables, heap>>

\* USE: makes the sequence the current one and expands it; a sequence that
\* had no beam gets the default beam.  No such sequence: a warning only.
Use(name, periods) ==
    LET i == name_list_pos(name, SequNames) IN
    IF i = 0 - 1 THEN UNCHANGED <<sequs, current_sequ, tables, heap>>
    ELSE /\ sequs' = [sequs EXCEPT ![i + 1] =
                [sequs[i + 1] EXCEPT
                    !.all_nodes = Repeat(sequs[i + 1].nodes, periods),
                    !.beam = IF @ = NULL THEN "beam0" ELSE @,
                    !.tw_valid = FALSE]]
         /\ current_sequ' = name
         /\ UNCHANGED <<tables, heap>>

\* BEAM: attaches a beam to the current sequence.
Beam ==
    LET i == name_list_pos(current_sequ, SequNames) IN
    IF current_sequ = NULL \/ i = 0 - 1
    THEN UNCHANGED <<sequs, current_sequ, tables, heap>>
    ELSE /\ sequs' = [sequs EXCEPT ![i + 1].beam = "beam1"]
         /\ UNCHANGED <<current_sequ, tables, heap>>

\* The engine builds the table "twiss" with these rows.  A former table
\* "twiss" is released and the new one allocated, in the same block of
\* memory or in another.
NewTable(data) ==
    \E blk \in Blocks :
    \E g \in IF HasTwiss THEN Released(TwissBlock) ELSE {FreeBlock} :
        LET t == [name |-> "twiss", columns |-> ColumnsIn(blk),
                  curr |-> Len(data.length), header |-> TwissHeader]
            freed == IF HasTwiss THEN [heap EXCEPT ![TwissBlock] = g] ELSE heap
        IN  /\ heap' = [freed EXCEPT ![blk] = [live |-> TRUE, rows |-> data]]
            /\ tables' = <<t>>

\* TWISS: computes the table "twiss" of the current sequence.
Twiss(data) ==
    LET i == name_list_pos(current_sequ, SequNames) IN
    IF current_sequ = NULL \/ i = 0 - 1
    THEN UNCHANGED <<sequs, current_sequ, tables, heap>>
    ELSE /\ NewTable(data)
         /\ sequs' = [sequs EXCEPT ![i + 1].tw_valid = TRUE,
                                   ![i + 1].tw_table = "twiss"]
         /\ UNCHANGED current_sequ

\* CREATE, TABLE=TWISS: a table of that name with rows of the user's.
Create(data) ==
    /\ NewTable(data)
    /\ UNCHANGED <<sequs, current_sequ>>

\* A command that writes the rows of table "twiss" anew where they lie.
Fill(data) ==
    IF ~HasTwiss \/ Len(data.length) # TwissTable.curr
    THEN UNCHANGED <<sequs, current_sequ, tables, heap>>
    ELSE /\ heap' = [heap EXCEPT ![TwissBlock].rows = data]
         /\ UNCHANGED <<sequs, current_sequ, tables>>

\* clib.pro_input: the engine runs one command.
pro_input(cmd) ==
    CASE cmd.verb = "sequence" -> Sequence(cmd.name, cmd.nodes)
      [] cmd.verb = "use"      -> Use(cmd.name, cmd.periods)
      [] cmd.verb = "beam"     -> Beam
      [] cmd.verb = "twiss"    -> Twiss(cmd.data)
      [] cmd.verb = "create"   -> Create(cmd.data)
      [] cmd.verb = "fill"     -> Fill(cmd.data)

\* stolower_nq: the command in lower case.
stolower_nq(cmd) ==
    IF cmd.verb \in {"sequence", "use"} THEN [cmd EXCEPT !.name = lower(@)]
    ELSE cmd

(***************************************************************************)
(* Calls of the binding                                                    *)
(***************************************************************************)
engine == <<started, sequs, current_sequ, tables, heap>>

\* A call on an engine that is not started reads what madx_start has not
\* set up or madx_finish has released: the process dies, or the call
\* returns what it found there.
Undefined == {Fault, Ok("garbage")}

\* The process runs: no call has killed it.
Alive == result.out.kind # "fault"

Called(op, args, out) == [op |-> op, args |-> args, native |-> TRUE, out |-> out]

\* What the host keeps: an array it was given, and (for the properties) the
\* column it asked for, where the engine held that column then, and what
\* the host read in the array then.
NoHeld == [obj |-> [kind |-> "none", cells |-> <<>>], column |-> NULL,
           from |-> [blk |-> NULL, col |-> NULL], atcall |-> <<>>]

\* A reading function had it left no sequence current.
QueryDroppingCurrent(op, args, out) ==
    /\ Alive
    /\ IF started THEN result' = Called(op, args, out)
       ELSE \E o \in Undefined : result' = Called(op, args, o)
    /\ current_sequ' = NULL
    /\ UNCHANGED <<started, sequs, tables, heap, scratch, held, par, header_line>>

\* A function of the binding that only reads the engine.  Every one of
\* them calls into the library at once, whatever the engine's state.
Query(op, args, out) ==
    /\ Alive
    /\ IF started THEN result' = Called(op, args, out)
       ELSE \E o \in Undefined : result' = Called(op, args, o)
    /\ UNCHANGED <<engine, scratch, held, par, header_line>>

\* The state madx_start sets up.
Fresh ==
    /\ sequs' = <<>>
    /\ current_sequ' = NULL
    /\ tables' = <<>>
    /\ scratch' = ""

start ==
    /\ Alive
    /\ started' = TRUE
    /\ Fresh
    /\ result' = Called("start", <<>>, Ok(None))
    /\ UNCHANGED <<heap, held, par, header_line>>

\* madx_finish releases what the engine holds.  On an engine that is not
\* started there is nothing it may release.
finish ==
    /\ Alive
    /\ IF started
       THEN /\ started' = FALSE
            /\ Fresh
            /\ \E g \in IF HasTwiss THEN Released(TwissBlock) ELSE {FreeBlock} :
                  heap' = IF HasTwiss THEN [heap EXCEPT ![TwissBlock] = g] ELSE heap
            /\ result' = Called("finish", <<>>, Ok(None))
       ELSE /\ \E o \in {Fault, Ok(None)} : result' = Called("finish", <<>>, o)
            /\ UNCHANGED <<engine, scratch>>
    /\ UNCHANGED <<held, par, header_line>>

input(cmd) ==
    /\ Alive
    /\ IF started
       THEN /\ pro_input(stolower_nq(cmd))
            /\ result' = Called("input", <<cmd>>, Ok(None))
            /\ UNCHANGED started
       ELSE /\ \E o \in Undefined : result' = Called("input", <<cmd>>, o)
            /\ UNCHANGED engine
    /\ UNCHANGED <<scratch, held, par, header_line>>

call_sequence_exists(n) == Query("sequence_exists", <<n>>, sequence_exists(n))
call_get_twiss(n) == Query("get_twiss", <<n>>, get_twiss(n))
call_get_beam(n) ==
    \E oob \in OutOfBounds : Query("get_beam", <<n>>, get_beam(n, oob))
call_get_current_sequence ==
    Query("get_current_sequence", <<>>, get_current_sequence)
call_get_sequences == Query("get_sequences", <<>>, get_sequences)
call_table_exists(t) == Query("table_exists", <<t>>, table_exists(t))
call_get_table_summary(t) ==
    \E null \in NullHeader :
        Query("get_table_summary", <<t>>, get_table_summary(t, null))
call_get_table_columns(t) ==
    Query("get_table_columns", <<t>>, get_table_columns(t))
call_get_elements(n) ==
    \E oob \in OutOfBounds : Query("get_elements", <<n>>, get_elements(n, oob))
call_get_expanded_elements(n) ==
    \E oob \in OutOfBounds :
        Query("get_expanded_elements", <<n>>, get_expanded_elements(n, oob))

\* get_table_column; the host keeps the array it is given, or drops it.
call_get_table_column(t, c, keep) ==
    /\ Alive
    /\ IF started
       THEN LET out == get_table_column(t, c) IN
            /\ result' = Called("get_table_column", <<t, c>>, out)
            /\ held' = IF out.kind = "ok" /\ keep
                       THEN [obj |-> out.value, column |-> c,
                             from |-> IF table_get_column(_cstr(t), _cstr(c)).datatype = "d"
                                      THEN table_get_column(_cstr(t), _cstr(c)).data
                                      ELSE NoHeld.from,
                             atcall |-> Contents(out.value)]
                       ELSE held
       ELSE /\ \E o \in Undefined : result' = Called("get_table_column", <<t, c>>, o)
            /\ UNCHANGED held
    /\ UNCHANGED <<engine, scratch, par, header_line>>

\* evaluate: splits the text into the global temporaries and evaluates it.
call_evaluate(cmd) ==
    /\ Alive
    /\ IF started
       THEN /\ scratch' = _cstr(lower(cmd))
            /\ result' = Called("evaluate", <<cmd>>, evaluate(cmd))
       ELSE /\ \E o \in Undefined : result' = Called("evaluate", <<cmd>>, o)
            /\ UNCHANGED scratch
    /\ UNCHANGED <<engine, held, par, header_line>>

(***************************************************************************)
(* The calls a host makes                                                  *)
(***************************************************************************)
QueryNames == {"s1", "S1", "s2"}
TableArgs == {"twiss", "nosuch"}
ColumnArgs == {"length", "name", "n", "missing"}
Expressions == {"2*KQ", "2*kq"}

NodeLists == SeqsUpTo(NodeKinds, MaxNodes)

SequenceCommands(names, lists) ==
    {[verb |-> "sequence", name |-> n, nodes |-> l] : n \in names, l \in lists}
UseCommands(names, periods) ==
    {[verb |-> "use", name |-> n, periods |-> k] : n \in names, k \in periods}
TwissCommands(data) == {[verb |-> "twiss", data |-> d] : d \in data}
CreateCommands(data) == {[verb |-> "create", data |-> d] : d \in data}
FillCommands(data) == {[verb |-> "fill", data |-> d] : d \in data}

\* A session that declares, uses and computes: one beam line with a nested
\* sequence, one table.
Commands ==
    SequenceCommands({"S1"}, {<<QuadNode, SequNode>>})
    \cup UseCommands({"s1"}, {1})
    \cup {[verb |-> "beam"]}
    \cup TwissCommands({RowsOf(<<2, 5>>)})

\* Sessions that declare beam lines of every shape and expand them.
WalkCommands ==
    SequenceCommands({"S1"}, NodeLists)
    \cup SequenceCommands({"s2"}, {<<>>})
    \cup UseCommands({"s1"}, {2})

\* Sessions that compute and rewrite tables of every content.
TableCommands == CreateCommands(TableData) \cup FillCommands(TableData)

Init ==
    /\ started = FALSE
    /\ sequs = <<>>
    /\ current_sequ = NULL
    /\ tables = <<>>
    /\ heap = [b \in Blocks |-> FreeBlock]
    /\ scratch = ""
    /\ held = NoHeld
    /\ result = NoCall
    /\ par = Par0
    /\ header_line = <<>>

SequenceQueries ==
    \/ \E n \in QueryNames : call_sequence_exists(n)
    \/ \E n \in QueryNames : call_get_elements(n)
    \/ \E n \in QueryNames : call_get_expanded_elements(n)
    \/ call_get_current_sequence
    \/ call_get_sequences

TableQueries(keep) ==
    \/ \E t \in TableArgs : call_table_exists(t)
    \/ \E t \in TableArgs : call_get_table_summary(t)
    \/ \E t \in TableArgs : call_get_table_columns(t)
    \/ \E t \in TableArgs, c \in ColumnArgs : call_get_table_column(t, c, keep)

Next ==
    \/ start
    \/ finish
    \/ \E c \in Commands : input(c)
    \/ SequenceQueries
    \/ TableQueries(FALSE)
    \/ \E n \in QueryNames : call_get_twiss(n)
    \/ \E n \in QueryNames : call_get_beam(n)
    \/ \E e \in Expressions : call_evaluate(e)

Spec == Init /\ [][Next]_vars

NextWalk ==
    \/ start
    \/ finish
    \/ \E c \in WalkCommands : input(c)
    \/ SequenceQueries
    \/ \E n \in QueryNames : call_get_twiss(n)
    \/ \E n \in QueryNames : call_get_beam(n)

SpecWalk == Init /\ [][NextWalk]_vars

NextTable ==
    \/ start
    \/ finish
    \/ \E c \in TableCommands : input(c)
    \/ TableQueries(FALSE)

SpecTable == Init /\ [][NextTable]_vars

\* A host that keeps the columns of the table it had computed.
NextView ==
    \/ start
    \/ finish
    \/ \E c \in TableCommands : input(c)
    \/ \E c \in ColumnArgs : call_get_table_column("twiss", c, TRUE)

SpecView == Init /\ [][NextView]_vars


(***************************************************************************)
(* _get_param_value on parameter records of every type                     *)
(***************************************************************************)
\* Most entries of an array parameter and of its expression list.
MaxLen == 2

Exprs == {NULL, "a+b"}
ParamDoubles == {0 - 3, 0, 3}
TypeTags ==
    {PARAM_TYPE_LOGICAL, PARAM_TYPE_INTEGER, PARAM_TYPE_DOUBLE, PARAM_TYPE_STRING,
     PARAM_TYPE_CONSTRAINT, PARAM_TYPE_LOGICAL_ARRAY, PARAM_TYPE_INTEGER_ARRAY,
     PARAM_TYPE_DOUBLE_ARRAY, PARAM_TYPE_STRING_ARRAY, 0 - 1, 5, 14, 99}
ConstraintTags ==
    {0, CONSTR_TYPE_MIN, CONSTR_TYPE_MAX, CONSTR_TYPE_BOTH, CONSTR_TYPE_VALUE, 5}

\* Scalar and string records of every type tag.
ScalarParams ==
    {[Par0 EXCEPT !.type = t, !.expr = e, !.double_value = v, !.string = str] :
        t \in TypeTags \ {PARAM_TYPE_CONSTRAINT}, e \in Exprs,
        v \in ParamDoubles, str \in {NULL, "proton"}}

ConstraintParams ==
    {[Par0 EXCEPT !.type = PARAM_TYPE_CONSTRAINT, !.c_type = c,
                  !.min_expr = lo, !.c_min = 0 - 3, !.max_expr = hi, !.c_max = 3,
                  !.expr = e, !.double_value = 2] :
        c \in ConstraintTags, lo \in Exprs, hi \in Exprs, e \in Exprs}

\* Array records: the numbers with an expression list that is absent, as
\* long as the array, shorter or longer; and arrays of strings.
ArrayParams ==
    {[Par0 EXCEPT !.type = t, !.double_array = a, !.expr_list = l, !.m_string = m] :
        t \in {PARAM_TYPE_LOGICAL_ARRAY, PARAM_TYPE_INTEGER_ARRAY,
               PARAM_TYPE_DOUBLE_ARRAY, PARAM_TYPE_STRING_ARRAY},
        a \in SeqsUpTo({0, 3}, MaxLen),
        l \in {NoList} \cup {ExprList(x) : x \in SeqsUpTo(Exprs, MaxLen)},
        m \in {<<>>, <<"a", NULL>>}}

Params == ScalarParams \cup ConstraintParams \cup ArrayParams

\* Everything but the record under test is as Init has it.
Idle ==
    /\ started = FALSE
    /\ sequs = <<>>
    /\ current_sequ = NULL
    /\ tables = <<>>
    /\ heap = [b \in Blocks |-> FreeBlock]
    /\ scratch = ""
    /\ held = NoHeld
    /\ result = NoCall

InitParam ==
    /\ Idle
    /\ par \in Params
    /\ header_line = <<>>

decode_param ==
    /\ result.op = "none"
    /\ \E oob \in OutOfBounds :
          result' = [op |-> "_get_param_value", args |-> <<>>, native |-> FALSE,
                     out |-> _get_param_value(par, oob)]
    /\ UNCHANGED <<engine, scratch, held, par, header_line>>

SpecParam == InitParam /\ [][decode_param]_vars

(***************************************************************************)
(* _split_header_line on header lines of every layout                      *)
(***************************************************************************)
sKey == <<"k", "e", "y">>
sLe == <<"%", "l", "e">>
sS == <<"%", "s">>
s314 == <<"3", ".", "1", "4">>
sHello == <<"h", "e", "l", "l", "o">>
sQHello == <<"\"">> \o sHello \o <<"\"">>
sValue314 == <<"v", "a", "l", "u", "e", " ">> \o s314

\* The fourth fields of the model, each with the number it denotes if it
\* denotes one.
HeaderValues ==
    { [text |-> s314, isnum |-> TRUE, num |-> [mant |-> 314, dec |-> 2]],
      [text |-> <<"7">>, isnum |-> TRUE, num |-> [mant |-> 7, dec |-> 0]],
      [text |-> <<"-", "1", ".", "5", "0">>, isnum |-> TRUE,
       num |-> [mant |-> 0 - 15, dec |-> 1]],
      [text |-> sQHello, isnum |-> FALSE, num |-> [mant |-> 0, dec |-> 0]],
      [text |-> <<"\"", "\"">>, isnum |-> FALSE, num |-> [mant |-> 0, dec |-> 0]],
      [text |-> <<"x">>, isnum |-> FALSE, num |-> [mant |-> 0, dec |-> 0]],
      [text |-> sValue314, isnum |-> FALSE, num |-> [mant |-> 0, dec |-> 0]] }

\* Header lines: white space, the ignored field, the key, the format code
\* and (in a line of four fields) the value, with white space between and
\* after.
HeaderLines ==
    {[lead |-> ld, ignore |-> ig, key |-> k, code |-> c, value |-> v, sep |-> sp,
      trail |-> tr, nfields |-> n] :
        ld \in {<<>>, <<" ">>}, ig \in {<<"*">>, <<"@">>},
        k \in {sKey, <<"n">>},
        c \in {sLe, sS, <<"%", "0", "5", "s">>, <<"%", "d">>},
        v \in HeaderValues, sp \in {<<" ">>, <<" ", " ">>, <<"\t">>},
        tr \in {<<>>, <<" ">>}, n \in {3, 4}}

\* The text of a header line.
HeaderText(h) ==
    h.lead \o h.ignore \o h.sep \o h.key \o h.sep \o h.code
    \o (IF h.nfields = 4 THEN h.sep \o h.value.text ELSE <<>>) \o h.trail

InitHeader ==
    /\ Idle
    /\ par = Par0
    /\ header_line \in HeaderLines

parse_header ==
    /\ result.op = "none"
    /\ result' = [op |-> "_split_header_line", args |-> <<>>, native |-> FALSE,
                  out |-> _split_header_line(HeaderText(header_line))]
    /\ UNCHANGED <<engine, scratch, held, par, header_line>>

SpecHeader == InitHeader /\ [][parse_header]_vars

(***************************************************************************)
(* Properties                                                              *)
(***************************************************************************)
\* The sequence registry holds an entry of this name.
Registered(n) == \E i \in 1..Len(sequs) : sequs[i].name = n

NameLookups ==
    {"sequence_exists", "get_elements", "get_expanded_elements", "get_twiss",
     "get_beam"}

C2_FailsFastWhenNotStarted ==
    (~started /\ result.op \notin {"none", "start", "finish"}) =>
        (result.out.kind = "EngineNotStarted" /\ ~result.native)

QueryOps ==
    {"sequence_exists", "get_twiss", "get_beam", "get_current_sequence",
     "get_sequences", "table_exists", "get_table_summary", "get_table_columns",
     "get_table_column", "get_elements", "get_expanded_elements"}

\* C10: a step in which a query function is called leaves the sequence
\* registry, the table registry, the current sequence, the tables' memory,
\* the started flag and the scratch buffers as they were; a call of evaluate
\* leaves all of these but the scratch buffers as they were; and a step that
\* changes the registries or the current sequence is a call of input, start
\* or finish.
C10_QueriesDoNotMutate ==
    [][ /\ result'.op \in QueryOps => UNCHANGED <<engine, scratch>>
        /\ result'.op = "evaluate" => UNCHANGED engine
        /\ <<sequs, tables, current_sequ>>' # <<sequs, tables, current_sequ>>
              => result'.op \in {"input", "start", "finish"}
        /\ (started /\ started'
            /\ <<sequs, tables, current_sequ>>' # <<sequs, tables, current_sequ>>)
              => result'.op \in {"input", "start"} ]_vars

\* evaluate has run on an engine that holds a sequence, a current sequence
\* and a table, and left its text in the scratch buffers.
C10_Witness ==
    /\ started /\ result.op = "evaluate" /\ result.out.kind = "ok"
    /\ scratch = "2*kq" /\ sequs # <<>> /\ tables # <<>> /\ current_sequ # NULL

\* The table registry holds a table of this name.
TableHeld(t) == \E i \in 1..Len(tables) : tables[i].name = t

\* The columns of that name the table of that name has.
ColumnsNamed(t, c) ==
    {x \in UNION {Range(tables[i].columns) : i \in {j \in 1..Len(tables) : tables[j].name = t}} :
        x.name = c}

\* The rows the table of that name has now.
RowsNow(t) == tables[CHOOSE i \in 1..Len(tables) : tables[i].name = t].curr

\* C3: get_table_column on a started engine ends in one of four ways, by
\* what the engine stores for the column: a column of doubles gives a view
\* of the engine's own buffer with as many entries as the table has rows; a
\* column of strings gives an array of as many strings; a table or column
\* that is not there gives the ValueError that carries column and table;
\* any other stored type gives the RuntimeError that carries the type
\* character and the column name.
C3_ColumnOutcomes ==
    (started /\ result.op = "get_table_column") =>
        LET t    == result.args[1]
            c    == result.args[2]
            cols == ColumnsNamed(t, c)
        IN  IF cols = {}
            THEN result.out = ValueError("Column is not in table", <<c, t>>)
            ELSE LET col == CHOOSE x \in cols : TRUE IN
                 CASE col.datatype = "d" ->
                        /\ result.out.kind = "ok"
                        /\ result.out.value.kind = "view"
                        /\ result.out.value.length = RowsNow(t)
                        /\ result.out.value.data = col.data
                   [] col.datatype = "S" ->
                        /\ result.out.kind = "ok"
                        /\ result.out.value.kind = "array"
                        /\ result.out.value.cells = Cells(col.data)
                        /\ Len(result.out.value.cells) = RowsNow(t)
                   [] OTHER ->
                        result.out = RuntimeError("Unknown datatype in column",
                                                  <<col.datatype, c>>)

\* The column of doubles of a table of as many rows as a table can have
\* was asked for, and a view of that many entries returned.
C3_Witness ==
    /\ started /\ result.op = "get_table_column"
    /\ result.args = <<"twiss", "length">>
    /\ result.out.kind = "ok" /\ result.out.value.kind = "view"
    /\ result.out.value.length = MaxRows

TableLookups ==
    {"get_table_summary", "get_table_columns", "get_table_column"}

\* C5: on a started engine, for a table name the registry does not hold,
\* table_exists returns False and get_table_columns, get_table_column and
\* get_table_summary each end in an error of the binding; the process does
\* not die and no value is returned.
C5_UnknownTableName ==
    (started /\ result.op \in TableLookups \cup {"table_exists"}
             /\ ~TableHeld(result.args[1])) =>
        IF result.op = "table_exists" THEN result.out = Ok(FALSE)
        ELSE result.out.kind \in {"ValueError", "RuntimeError"}

\* The string column the host was given reads as it read when it was given.
StringCopyKept == held.column = "name" => Contents(held.obj) = held.atcall

\* The engine holds the column of doubles where it held it, and with as many
\* rows as it had, when the host was given the array.
StillInPlace ==
    /\ held.column = "length"
    /\ HasTwiss
    /\ TwissTable.columns[1].data = held.from
    /\ heap[held.from.blk].live
    /\ TwissTable.curr = Len(held.atcall)

\* C4 as the specification words it: the numeric array the host was given
\* reads, in every later state, as the engine's current buffer of that
\* column; the string array reads as it read at the call.
C4_ViewFollowsEngineAlways ==
    /\ held.column = "length" =>
          /\ HasTwiss
          /\ Contents(held.obj) = Cells(TwissTable.columns[1].data)
    /\ StringCopyKept

\* C4: the numeric array the host was given is no copy: in every later state
\* in which the engine holds the column where and as long as it held it at
\* the call, the array reads as the engine's current buffer of that column;
\* the string array reads as it read at the call; and only a call of input,
\* start or finish changes what either array reads.
C4_ViewAliasesBuffer ==
    /\ [](StillInPlace => Contents(held.obj) = Cells(held.from))
    /\ []StringCopyKept
    /\ [][(held' = held /\ result'.op \notin {"input", "start", "finish"})
              => Contents(held.obj)' = Contents(held.obj)]_vars

\* The host holds the column of doubles, the engine has since written other
\* numbers into the same buffer, and the host reads the new ones.
C4_Witness ==
    /\ StillInPlace
    /\ held.obj.kind = "view"
    /\ held.atcall # <<>>
    /\ Contents(held.obj) # held.atcall
    /\ Contents(held.obj) = Cells(held.from)

NumberArrays == {PARAM_TYPE_INTEGER_ARRAY, PARAM_TYPE_DOUBLE_ARRAY}

\* The entries the expression list of a record has; none if it has no list.
ExprCount(p) == IF p.expr_list.null THEN 0 ELSE Len(p.expr_list.list)

\* An array element that carries the expression it came from.
WithProvenance(x, e) == x.variant = "Expression" /\ x.expr = e

\* C6: decoding an array of n numbers whose expression list is absent or has
\* m entries never reads the list at or beyond m, and yields n elements:
\* element i carries the i-th expression if i < m and the list has one
\* there, and carries none otherwise.
C6_ShortExpressionList ==
    (result.op = "_get_param_value" /\ par.type \in NumberArrays) =>
        LET n == Len(par.double_array)
            m == ExprCount(par)
        IN  /\ \A i \in ExprListReads(par) : i < m
            /\ result.out.kind = "ok"
            /\ result.out.value.variant = "numbers"
            /\ Len(result.out.value.value) = n
            /\ \A i \in 1..n :
                  LET x == result.out.value.value[i] IN
                  IF i <= m /\ par.expr_list.list[i] # NULL
                  THEN WithProvenance(x, par.expr_list.list[i])
                  ELSE x.variant \in {"int", "float"}

ConstraintKinds ==
    {CONSTR_TYPE_MIN, CONSTR_TYPE_MAX, CONSTR_TYPE_BOTH, CONSTR_TYPE_VALUE}

\* The variants a record of a type tag decodes to; none for a tag the
\* decoder does not know.
VariantsOf(p) ==
    CASE p.type = PARAM_TYPE_LOGICAL -> {"bool", "Expression"}
      [] p.type = PARAM_TYPE_INTEGER -> {"int", "Expression"}
      [] p.type = PARAM_TYPE_DOUBLE -> {"float", "Expression"}
      [] p.type = PARAM_TYPE_STRING -> {"str"}
      [] p.type = PARAM_TYPE_CONSTRAINT /\ p.c_type \in ConstraintKinds -> {"Constraint"}
      [] p.type \in NumberArrays -> {"numbers"}
      [] p.type = PARAM_TYPE_STRING_ARRAY -> {"strs"}
      [] OTHER -> {}

\* C7: the decoder is total: every record either decodes to a value of the
\* variant of its type tag or fails with the ValueError that carries the
\* raw type tag, and a record of an unknown type tag or of an unknown
\* constraint kind never decodes to a value.
C7_DecoderTotal ==
    result.op = "_get_param_value" =>
        IF VariantsOf(par) = {}
        THEN result.out = ValueError("Unknown parameter type", par.type)
        ELSE /\ result.out.kind = "ok"
             /\ result.out.value.variant \in VariantsOf(par)

Walks == {"get_elements", "get_expanded_elements"}

\* The node list the last call walked: the declared nodes for get_elements,
\* the expanded ones for get_expanded_elements.
Walked ==
    LET q == sequs[CHOOSE i \in 1..Len(sequs) : sequs[i].name = result.args[1]]
    IN  IF result.op = "get_elements" THEN q.nodes ELSE q.all_nodes

HasNeither(node) == node.p_elem = NULL /\ node.p_sequ = NULL
NestedSequence(node) == node.p_elem = NULL /\ node.p_sequ # NULL

\* An element node whose definition holds a parameter the decoder rejects.
Undecodable(node) ==
    /\ node.p_elem # NULL
    /\ \E x \in Range(CommandOf(ElementOf(node.p_elem).def_).par) :
          VariantsOf(x) = {}

\* The mapping of a sequence node: type and sequence, and no more.
SequenceMapping(name) ==
    [k \in {"type", "sequence"} |->
        IF k = "type" THEN PyStr("sequence") ELSE PyStr(name)]

\* A returned list has one mapping per node, in the order of the nodes: a
\* sequence node's is the sequence mapping, an element node's has the
\* element's name and type.
OneMappingPerNode(nodes, list) ==
    /\ Len(list) = Len(nodes)
    /\ \A i \in 1..Len(nodes) :
          IF NestedSequence(nodes[i])
          THEN list[i] = SequenceMapping(nodes[i].p_sequ)
          ELSE /\ {"name", "length", "type"} \subseteq DOMAIN list[i]
               /\ list[i]["name"] = PyStr(ElementOf(nodes[i].p_elem).name)
               /\ list[i]["type"] = PyStr(nodes[i].base_name)

\* C8 as the specification words it: the call fails with the "Empty node"
\* RuntimeError whenever a node of the list has neither an element nor a
\* sequence, and a list it returns has one mapping per node.
C8_EmptyNodeAlwaysReported ==
    (started /\ result.op \in Walks /\ Registered(result.args[1])) =>
        IF \E i \in 1..Len(Walked) : HasNeither(Walked[i])
        THEN result.out.kind = "RuntimeError"
        ELSE result.out.kind = "ok" => OneMappingPerNode(Walked, result.out.value)

\* C8: get_elements and get_expanded_elements decode the nodes in list
\* order.  If every node decodes, the call returns one mapping per node, in
\* order, the mapping of a sequence node being exactly type and sequence.
\* Otherwise the whole call fails with the failure of the first node that
\* does not decode, and returns no list: the "Empty node" RuntimeError for a
\* node with neither element nor sequence, the "Unknown parameter type"
\* ValueError for an element whose definition holds a parameter of a type
\* the decoder does not know.
C8_FirstFailingNodeDecides ==
    (started /\ result.op \in Walks /\ Registered(result.args[1])) =>
        LET bad == {i \in 1..Len(Walked) :
                        HasNeither(Walked[i]) \/ Undecodable(Walked[i])}
        IN  IF bad = {}
            THEN /\ result.out.kind = "ok"
                 /\ OneMappingPerNode(Walked, result.out.value)
            ELSE LET first == CHOOSE i \in bad : \A j \in bad : i <= j IN
                 IF HasNeither(Walked[first])
                 THEN result.out =
                        RuntimeError("Empty node! Please report this incident!", NULL)
                 ELSE /\ result.out.kind = "ValueError"
                      /\ result.out.msg = "Unknown parameter type"

\* A sequence of a sequence node and a node with neither was walked, and the
\* call failed with the "Empty node" RuntimeError.
C8_Witness ==
    /\ started /\ result.op = "get_elements" /\ Registered(result.args[1])
    /\ Walked = <<SequNode, EmptyNode>>
    /\ result.out.kind = "RuntimeError"

\* The fourth field as split leaves it: the text after the format code,
\* white space at the end of the line included.
RawValue(h) == h.value.text \o h.trail

\* What the layout rule gives for a header line of the model; for a %le
\* line whose fourth field is no number it gives nothing.
ByLayout(h) ==
    IF h.code = sLe THEN Ok(<<h.key, h.value.num>>)
    ELSE IF h.code[Len(h.code)] = "s"
    THEN Ok(<<h.key, SubSeq(RawValue(h), 2, Len(RawValue(h)) - 1)>>)
    ELSE Ok(<<h.key, RawValue(h)>>)

Parsed == result.op = "_split_header_line"

\* The lines the specification gives as examples, and the first of them
\* without the word "value".
LineValue314 == <<"*", " ">> \o sKey \o <<" ">> \o sLe \o <<" ">> \o sValue314
LineHello == <<"*", " ">> \o sKey \o <<" ">> \o sS \o <<" ">> \o sQHello
Line314 == <<"*", " ">> \o sKey \o <<" ">> \o sLe \o <<" ">> \o s314

\* C9 as the specification words it: a line of four fields parses by the
\* layout rule, and the line "* key %le value 3.14" parses to ("key", 3.14).
C9_ExampleWithValueWord ==
    (Parsed /\ header_line.nfields = 4) =>
        /\ (header_line.code # sLe \/ header_line.value.isnum)
              => result.out = ByLayout(header_line)
        /\ HeaderText(header_line) = LineValue314
              => result.out = Ok(<<sKey, [mant |-> 314, dec |-> 2]>>)

\* C9: a header line of four fields (ignore-field, key, format code, rest
\* of the line) parses by its format code: %le gives (key, rest as float)
\* and fails with ValueError if the rest is no number; a code ending in 's'
\* gives (key, rest without its first and last character); any other code
\* gives (key, rest).  A line of fewer fields fails with ValueError.  So
\* "* key %le 3.14" parses to ("key", 3.14), "* key %s "hello"" parses to
\* ("key", "hello"), and "* key %le value 3.14" fails with ValueError.
C9_HeaderLineLayout ==
    Parsed =>
        /\ header_line.nfields # 4 => result.out.kind = "ValueError"
        /\ header_line.nfields = 4 =>
              IF header_line.code = sLe /\ ~header_line.value.isnum
              THEN result.out.kind = "ValueError"
              ELSE result.out = ByLayout(header_line)
        /\ HeaderText(header_line) = Line314
              => result.out = Ok(<<sKey, [mant |-> 314, dec |-> 2]>>)
        /\ HeaderText(header_line) = LineHello => result.out = Ok(<<sKey, sHello>>)
        /\ HeaderText(header_line) = LineValue314 => result.out.kind = "ValueError"

\* The line "* key %s "hello"" was parsed to ("key", "hello").
C9_Witness ==
    /\ Parsed
    /\ HeaderText(header_line) = LineHello
    /\ result.out = Ok(<<sKey, sHello>>)

=============================================================================
